---- MODULE Spec2Model ----
(***************************************************************************)
(* Task-lifecycle manager of the Slack AI processor                        *)
(* (backend/app/services/ai_processor.py, class AIProcessorService).       *)
(*                                                                         *)
(* Threads.  The request handlers of api/routes/slack.py are `async def`   *)
(* functions without an await inside: they run one after the other on the  *)
(* event-loop thread, which is the single "caller" below.  The pipelines   *)
(* run on the threads of ThreadPoolExecutor(max_workers=2).  Nothing in    *)
(* the service takes a lock, so the caller and the workers interleave at   *)
(* every access of self.processing_tasks; each such access is one step.    *)
(* Python's None is the empty sequence <<>>, a present value x is <<x>>.   *)
(***************************************************************************)
EXTENDS Integers, Sequences, FiniteSets, TLC

\* ---------------------------------------------------------------- bounds
\* Number of start_processing_task calls explored together with polls.
MaxTasks == 2
\* Number of start_processing_task calls explored without polls (PoolSpec).
MaxPoolTasks == 4
\* Number of start_processing_task calls explored under fair scheduling (LiveSpec).
MaxLiveTasks == 3
\* Largest reading of datetime.now() explored (the clock stops advancing there).
MaxClock == 1
\* Number of start_processing_task calls explored with the pipeline run step
\* by step (PipelineSpec).
MaxPipelineTasks == 2
\* Largest number of messages in the first channel's history (CorpusSpec).
MaxMessages == 3
\* Largest number of tokens in a response of the completion service
\* (InsightsSpec).
MaxLen == 4
\* Number of start_processing_task calls explored with the workspace fetched
\* call by call (FetchSpec).
MaxFetchTasks == 1

\* ------------------------------------------------------ program constants
\* ThreadPoolExecutor(max_workers=2)
max_workers == 2

\* A pool that starts a thread for every submitted task.
WorkerPerTask == 1..MaxPoolTasks

\* The threads of the pool.
Workers == 1..max_workers
\* An id that uuid4 never returned.
UnknownId == 0
\* The ids a poll can ask for: those uuid4 can return, and one it never returns.
RequestIds == 0..MaxTasks

None == <<>>
Some(x) == <<x>>

\* slack_service.clients: the registered workspace ids.
clients == {"W1"}

\* The parameter sets a request can carry (channels, include_canvases,
\* max_age_days, custom_instruction); the route passes the request's fields on.
AllChannels == [channels |-> <<>>, include_canvases |-> TRUE,
                max_age_days |-> None, custom_instruction |-> None]
Filtered == [channels |-> <<"C1">>, include_canvases |-> FALSE,
             max_age_days |-> Some(7), custom_instruction |-> Some("focus")]

\* The requests explored: a registered workspace, and one that is not registered.
Requests == {[workspace_id |-> "W1", parameters |-> AllChannels],
             [workspace_id |-> "W2", parameters |-> Filtered]}

\* str(e) of the exceptions that can stop a pipeline on a registered workspace:
\* the empty-corpus ProcessingError of line 162 and a failure of an external call.
EmptyCorpusError == "No data to process after filtering"
ServiceError == "ServiceError"
PipelineErrors == {EmptyCorpusError, ServiceError}
\* IntegrationError raised by fetch_all_workspace_data for an unregistered id.
NotRegistered == "Workspace not registered"

VARIABLES
    processing_tasks,   \* self.processing_tasks: task id -> entry
    work_queue,         \* the executor's queue of submitted work items
    threads,            \* the executor's worker threads: position and locals
    now,                \* the last reading of datetime.now()
    caller,             \* the event-loop thread: position and locals
    ret                 \* what the call the caller just finished returned or
                        \* raised; NoCall once a worker has taken a step since

vars == <<processing_tasks, work_queue, threads, now, caller, ret>>

\* ------------------------------------------------------------- helpers
\* datetime.now(): a reading of the wall clock.
datetime_now == now

Terminal == {"completed", "failed"}
Statuses == {"queued", "processing"} \cup Terminal

\* A thread of the pool between two tasks.  While it runs a task it holds the
\* arguments of _process_workspace_data (by default those of the signature),
\* the function's locals, and `calls`, the external calls made for the task;
\* `fetched` is the workspace as line 143 returned it.
IdleThread == [workspace_id |-> "",
               parameters |-> AllChannels,
               pc |-> "idle",
               task_id |-> UnknownId,
               fetched |-> None,
               workspace_data |-> None,
               documents |-> <<>>,
               channel_summaries |-> <<>>,
               canvas_summaries |-> <<>>,
               overall_summary |-> None,
               insights_text |-> None,
               key_insights |-> <<>>,
               topics_text |-> None,
               topics |-> <<>>,
               calls |-> <<>>,
               result |-> None,
               exc |-> None]

\* The caller between two calls.  submitted is the id that start_processing_task
\* returned if that was the caller's last call, else UnknownId.
IdleCaller == [pc |-> "idle", task_id |-> UnknownId, submitted |-> UnknownId,
               status |-> "", completed_at |-> None,
               after_submit |-> FALSE, clean |-> TRUE]

NoView == [workspace_id |-> "",
           status |-> "",
           completed_at |-> None,
           started_at |-> None,
           error |-> None,
           results |-> None]
\* clean: no worker took a step while the call was running.
\* repeat: the call before it was the same call, and no worker took a step
\* since that call began.
NoCall == [task_id |-> UnknownId,
           after_submit |-> FALSE,
           clean |-> TRUE,
           op |-> "none",
           outcome |-> "none",
           repeat |-> FALSE,
           view |-> NoView]

\* The entry stored with the status that the process endpoint reports.
NewTaskProcessing(workspace_id, parameters, started_at) ==
    [workspace_id |-> workspace_id,
     parameters |-> parameters,
     status |-> "processing",
     completed_at |-> None,
     started_at |-> Some(started_at),
     error |-> None,
     results |-> None]

\* The entry stored by lines 72-85.
NewTask(workspace_id, parameters, started_at) ==
    [workspace_id |-> workspace_id,
     parameters |-> parameters,
     status |-> "queued",
     completed_at |-> None,
     started_at |-> Some(started_at),
     error |-> None,
     results |-> None]

\* The lookup treating a failed task as gone.
NotFoundOrFailed(task_id) ==
    \/ task_id \notin DOMAIN processing_tasks
    \/ processing_tasks[task_id].status = "failed"

\* `task_id not in self.processing_tasks` of lines 102 and 118.
NotFound(task_id) == task_id \notin DOMAIN processing_tasks

\* The status test letting every finished task through.
NotReadyUnlessTerminal(status) == status \notin {"completed", "failed"}

\* `task["status"] != "completed"` of line 123.
NotReady(status) == status # "completed"

\* self.processing_tasks[task_id][field] = value
SetField(task_id, field, value) ==
    [processing_tasks EXCEPT ![task_id] = [@ EXCEPT ![field] = value]]

Init ==
    /\ processing_tasks = <<>>
    /\ work_queue = <<>>
    /\ threads = [w \in Workers |-> IdleThread]
    /\ now = 0
    /\ caller = IdleCaller
    /\ ret = NoCall

\* ------------------------------------------------- the caller's operations
\* start_processing_task, lines 69-85: draw a fresh id and store the entry.
\* uuid4 is modelled as handing out the ids 1, 2, ... in turn.
StoreTask(workspace_id, parameters) ==
    /\ caller.pc = "idle"
    /\ LET task_id == Cardinality(DOMAIN processing_tasks) + 1 IN
       /\ processing_tasks' =
             processing_tasks @@
                (task_id :> NewTask(workspace_id, parameters, datetime_now))
       /\ caller' = [IdleCaller EXCEPT !.pc = "L88", !.task_id = task_id]
    /\ ret' = NoCall
    /\ UNCHANGED <<work_queue, threads, now>>

\* A work item that takes its parameters from the service's first task.
WorkItemFirst(task_id) ==
    [workspace_id |-> processing_tasks[task_id].workspace_id,
     parameters |-> processing_tasks[1].parameters,
     task_id |-> task_id]

\* The work item that lines 88-96 hand to the executor: the call's own arguments.
WorkItem(task_id) ==
    [workspace_id |-> processing_tasks[task_id].workspace_id,
     parameters |-> processing_tasks[task_id].parameters,
     task_id |-> task_id]

\* executor.submit waiting for a free worker.
SubmitTaskWhenIdle ==
    /\ caller.pc = "L88"
    /\ \E w \in DOMAIN threads : threads[w].pc = "idle"
    /\ work_queue' = Append(work_queue, WorkItem(caller.task_id))
    /\ ret' = [NoCall EXCEPT !.op = "start", !.task_id = caller.task_id,
                             !.outcome = "ok", !.clean = caller.clean]
    /\ caller' = [IdleCaller EXCEPT !.submitted = caller.task_id]
    /\ UNCHANGED <<processing_tasks, threads, now>>

\* start_processing_task, lines 88-98: executor.submit never blocks (the
\* executor's queue is unbounded), then the id is returned.
SubmitTask ==
    /\ caller.pc = "L88"
    /\ work_queue' = Append(work_queue, WorkItem(caller.task_id))
    /\ ret' = [NoCall EXCEPT !.op = "start", !.task_id = caller.task_id,
                             !.outcome = "ok", !.clean = caller.clean]
    /\ caller' = [IdleCaller EXCEPT !.submitted = caller.task_id]
    /\ UNCHANGED <<processing_tasks, threads, now>>

\* The dict built by lines 107-114 (results is not part of it).
StatusView(task, status, completed_at, error) ==
    [workspace_id |-> task.workspace_id,
     status |-> status,
     completed_at |-> completed_at,
     started_at |-> task.started_at,
     error |-> error,
     results |-> None]

\* get_task_status, lines 102-109: the lookup and the read of task["status"].
\* The three mutable fields are read one after the other, and a worker can
\* write between two reads.
get_task_status(task_id) ==
    /\ caller.pc = "idle"
    /\ IF NotFound(task_id)
       THEN /\ ret' = [NoCall EXCEPT !.op = "status", !.task_id = task_id,
                                     !.outcome = "not_found",
                                     !.repeat = (/\ ret.op = "status"
                                                 /\ ret.task_id = task_id
                                                 /\ ret.clean)]
            /\ caller' = IdleCaller
       ELSE /\ caller' = [IdleCaller EXCEPT
                             !.pc = "L112", !.task_id = task_id,
                             !.status = processing_tasks[task_id].status,
                             !.after_submit = (caller.submitted = task_id)]
            /\ ret' = IF ret.op = "status" /\ ret.task_id = task_id /\ ret.clean
                       THEN ret ELSE NoCall
    /\ UNCHANGED <<processing_tasks, work_queue, threads, now>>

\* get_task_status, line 112: the read of task["completed_at"].
StatusReadCompletedAt ==
    /\ caller.pc = "L112"
    /\ caller' = [caller EXCEPT !.pc = "L113",
                     !.completed_at = processing_tasks[caller.task_id].completed_at]
    /\ UNCHANGED <<processing_tasks, work_queue, threads, now, ret>>

\* get_task_status, lines 113-114: the read of task["error"] and the return.
StatusReturn ==
    /\ caller.pc = "L113"
    /\ ret' = [task_id |-> caller.task_id,
               after_submit |-> caller.after_submit,
               clean |-> caller.clean,
               op |-> "status",
               outcome |-> "ok",
               repeat |-> (ret.op = "status" /\ ret.task_id = caller.task_id),
               view |-> StatusView(processing_tasks[caller.task_id], caller.status,
                                   caller.completed_at,
                                   processing_tasks[caller.task_id].error)]
    /\ caller' = IdleCaller
    /\ UNCHANGED <<processing_tasks, work_queue, threads, now>>

\* get_task_results, lines 118-124: the lookup and the status test.
get_task_results(task_id) ==
    /\ caller.pc = "idle"
    /\ IF NotFound(task_id)
       THEN /\ ret' = [NoCall EXCEPT !.op = "results", !.task_id = task_id,
                                     !.outcome = "not_found"]
            /\ caller' = IdleCaller
       ELSE IF NotReady(processing_tasks[task_id].status)
       THEN /\ ret' = [NoCall EXCEPT !.op = "results", !.task_id = task_id,
                                     !.outcome = "not_ready"]
            /\ caller' = IdleCaller
       ELSE /\ caller' = [IdleCaller EXCEPT !.pc = "L126", !.task_id = task_id]
            /\ ret' = NoCall
    /\ UNCHANGED <<processing_tasks, work_queue, threads, now>>

\* get_task_results handing the result out once and dropping it.
ResultsReturnOnce ==
    /\ caller.pc = "L126"
    /\ ret' = [NoCall EXCEPT !.op = "results", !.task_id = caller.task_id,
                             !.outcome = "ok", !.clean = caller.clean,
                             !.view.results = processing_tasks[caller.task_id].results]
    /\ processing_tasks' = SetField(caller.task_id, "results", None)
    /\ caller' = IdleCaller
    /\ UNCHANGED <<work_queue, threads, now>>

\* get_task_results, line 126: return task["results"].
ResultsReturn ==
    /\ caller.pc = "L126"
    /\ ret' = [NoCall EXCEPT !.op = "results", !.task_id = caller.task_id,
                             !.outcome = "ok", !.clean = caller.clean,
                             !.view.results = processing_tasks[caller.task_id].results]
    /\ caller' = IdleCaller
    /\ UNCHANGED <<processing_tasks, work_queue, threads, now>>

\* -------------------------------------------------- the worker threads
\* What a worker's step does to the record of the caller's calls: the reply
\* of a finished call is no longer current, a running call is no longer clean.
WorkerStepped ==
    /\ ret' = NoCall
    /\ caller' = IF caller.pc = "idle" THEN caller ELSE [caller EXCEPT !.clean = FALSE]

\* A worker taking the newest work item of the queue.
DequeueNewest(w) ==
    /\ threads[w].pc = "idle"
    /\ work_queue # <<>>
    /\ work_queue' = SubSeq(work_queue, 1, Len(work_queue) - 1)
    /\ threads' = [threads EXCEPT ![w] =
                      [IdleThread EXCEPT
                          !.pc = "L140",
                          !.task_id = work_queue[Len(work_queue)].task_id,
                          !.workspace_id = work_queue[Len(work_queue)].workspace_id,
                          !.parameters = work_queue[Len(work_queue)].parameters]]
    /\ WorkerStepped
    /\ UNCHANGED <<processing_tasks, now>>

\* A worker of the ThreadPoolExecutor takes the oldest work item of the queue.
Dequeue(w) ==
    /\ threads[w].pc = "idle"
    /\ work_queue # <<>>
    /\ work_queue' = Tail(work_queue)
    /\ threads' = [threads EXCEPT ![w] =
                      [IdleThread EXCEPT !.pc = "L140",
                                         !.task_id = Head(work_queue).task_id,
                                         !.workspace_id = Head(work_queue).workspace_id,
                                         !.parameters = Head(work_queue).parameters]]
    /\ WorkerStepped
    /\ UNCHANGED <<processing_tasks, now>>

\* _process_workspace_data, line 140.
MarkProcessing(w) ==
    /\ threads[w].pc = "L140"
    /\ processing_tasks' = SetField(threads[w].task_id, "status", "processing")
    /\ threads' = [threads EXCEPT ![w].pc = "L143"]
    /\ WorkerStepped
    /\ UNCHANGED <<work_queue, now>>

\* The SlackAIProcessingResultSchema built by lines 198-206.
ProcessingResult(workspace_id, processing_time) ==
    [workspace_id |-> workspace_id, processing_time |-> processing_time]

\* The exceptions the pipeline of lines 143-206 can raise for a workspace:
\* fetch_all_workspace_data raises for an id that is not in clients.
Raisable(workspace_id) ==
    IF workspace_id \in clients THEN PipelineErrors ELSE {NotRegistered}

\* _process_workspace_data, lines 143-209: every step of the pipeline returned
\* and the result was built; line 209 writes the status.
PipelineReturns(w) ==
    /\ threads[w].pc = "L143"
    /\ threads[w].workspace_id \in clients
    /\ threads' = [threads EXCEPT
                      ![w].pc = "L210",
                      ![w].result = Some(ProcessingResult(threads[w].workspace_id,
                                                          datetime_now))]
    /\ processing_tasks' = SetField(threads[w].task_id, "status", "completed")
    /\ WorkerStepped
    /\ UNCHANGED <<work_queue, now>>

\* _process_workspace_data, line 210.
WriteCompletedAt(w) ==
    /\ threads[w].pc = "L210"
    /\ processing_tasks' =
          SetField(threads[w].task_id, "completed_at", Some(datetime_now))
    /\ threads' = [threads EXCEPT ![w].pc = "L211"]
    /\ WorkerStepped
    /\ UNCHANGED <<work_queue, now>>

\* Line 211 raising, so that the handler of lines 213-217 runs after line 209.
WriteResultsRaises(w) ==
    /\ threads[w].pc = "L211"
    /\ processing_tasks' = SetField(threads[w].task_id, "status", "failed")
    /\ threads' = [threads EXCEPT ![w].pc = "L216", ![w].exc = Some(ServiceError)]
    /\ WorkerStepped
    /\ UNCHANGED <<work_queue, now>>

\* _process_workspace_data, line 211; the worker returns to the pool.
WriteResults(w) ==
    /\ threads[w].pc = "L211"
    /\ processing_tasks' = SetField(threads[w].task_id, "results", threads[w].result)
    /\ threads' = [threads EXCEPT ![w] = IdleThread]
    /\ WorkerStepped
    /\ UNCHANGED <<work_queue, now>>

\* The exception escaping _process_workspace_data: nothing is written and the
\* worker returns to the pool.
PipelineRaisesUncaught(w, e) ==
    /\ threads[w].pc = "L143"
    /\ e \in Raisable(threads[w].workspace_id)
    /\ threads' = [threads EXCEPT ![w] = IdleThread]
    /\ WorkerStepped
    /\ UNCHANGED <<processing_tasks, work_queue, now>>

\* _process_workspace_data, lines 143-206 and 213-215: a step of the pipeline
\* raised e; the handler writes the status.
PipelineRaises(w, e) ==
    /\ threads[w].pc = "L143"
    /\ e \in Raisable(threads[w].workspace_id)
    /\ processing_tasks' = SetField(threads[w].task_id, "status", "failed")
    /\ threads' = [threads EXCEPT ![w].pc = "L216", ![w].exc = Some(e)]
    /\ WorkerStepped
    /\ UNCHANGED <<work_queue, now>>

\* _process_workspace_data, line 216.
WriteError(w) ==
    /\ threads[w].pc = "L216"
    /\ processing_tasks' = SetField(threads[w].task_id, "error", threads[w].exc)
    /\ threads' = [threads EXCEPT ![w].pc = "L217"]
    /\ WorkerStepped
    /\ UNCHANGED <<work_queue, now>>

\* The handler putting the failed task back into the queue for another run.
WriteFailedAtRetry(w) ==
    /\ threads[w].pc = "L217"
    /\ processing_tasks' =
          SetField(threads[w].task_id, "completed_at", Some(datetime_now))
    /\ work_queue' = Append(work_queue, WorkItem(threads[w].task_id))
    /\ threads' = [threads EXCEPT ![w] = IdleThread]
    /\ WorkerStepped
    /\ UNCHANGED now

\* _process_workspace_data, line 217; the worker returns to the pool.
WriteFailedAt(w) ==
    /\ threads[w].pc = "L217"
    /\ processing_tasks' =
          SetField(threads[w].task_id, "completed_at", Some(datetime_now))
    /\ threads' = [threads EXCEPT ![w] = IdleThread]
    /\ WorkerStepped
    /\ UNCHANGED <<work_queue, now>>

\* str(e) of every exception that can stop a pipeline.
Exceptions == PipelineErrors \cup {NotRegistered}

\* One step of worker w.
process_workspace_data(w) ==
    \/ Dequeue(w)
    \/ MarkProcessing(w)
    \/ PipelineReturns(w)
    \/ WriteCompletedAt(w)
    \/ WriteResults(w)
    \/ \E e \in Exceptions : PipelineRaises(w, e)
    \/ WriteError(w)
    \/ WriteFailedAt(w)

\* Time passes: the wall clock never runs backwards.
Tick ==
    /\ now < MaxClock
    /\ now' = now + 1
    /\ UNCHANGED <<processing_tasks, work_queue, threads, caller, ret>>

\* One step of the caller inside start_processing_task, while fewer than
\* `bound` tasks were started.
start_processing_task(bound) ==
    \/ /\ Cardinality(DOMAIN processing_tasks) < bound
       /\ \E request \in Requests :
             StoreTask(request.workspace_id, request.parameters)
    \/ SubmitTask

\* One step of the caller inside a poll.
Poll ==
    \/ \E task_id \in RequestIds : get_task_status(task_id)
    \/ StatusReadCompletedAt
    \/ StatusReturn
    \/ \E task_id \in RequestIds : get_task_results(task_id)
    \/ ResultsReturn

\* The service with a caller that starts tasks and polls them, in the time
\* between two ticks of the clock.
Next ==
    \/ start_processing_task(MaxTasks)
    \/ Poll
    \/ \E w \in Workers : process_workspace_data(w)

Spec == Init /\ [][Next]_vars

\* The same, while time passes.
ClockNext ==
    \/ Next
    \/ Tick

ClockSpec == Init /\ [][ClockNext]_vars

\* The service with a caller that only starts tasks: more of them than the
\* pool has workers.
PoolNext ==
    \/ start_processing_task(MaxPoolTasks)
    \/ \E w \in Workers : process_workspace_data(w)

PoolSpec == Init /\ [][PoolNext]_vars

\* The executor's threads are scheduled fairly, and every external call returns
\* or raises; the caller owes no further call, but finishes the one it is in.
Fairness ==
    /\ \A w \in Workers : WF_vars(process_workspace_data(w))
    /\ WF_vars(SubmitTask)

\* The service with a caller that only starts tasks, under fair scheduling.
LiveNext ==
    \/ start_processing_task(MaxLiveTasks)
    \/ \E w \in Workers : process_workspace_data(w)

LiveSpec == Init /\ [][LiveNext]_vars /\ Fairness

\* ---------------------------------------------------- the pipeline's data
\* A text is a sequence of tokens: a word "w", a blank, a line break and, in
\* the responses of the completion service, the tokens of JSON.
Whitespace == {" ", "\n"}

\* The smallest and the largest element of a non-empty set of integers.
Min(S) == CHOOSE x \in S : \A y \in S : x <= y
Max(S) == CHOOSE x \in S : \A y \in S : x >= y

\* str.strip(): the text without its leading and trailing whitespace.
strip(text) ==
    LET solid == {i \in 1..Len(text) : text[i] \notin Whitespace} IN
    IF solid = {} THEN <<>> ELSE SubSeq(text, Min(solid), Max(solid))

\* `not text.strip()`
Blank(text) == strip(text) = <<>>

\* The concatenation of the sequences of a sequence.
RECURSIVE Flatten(_)
Flatten(seqs) ==
    IF seqs = <<>> THEN <<>> ELSE Head(seqs) \o Flatten(Tail(seqs))

\* The messages a channel's history can hold (SlackMessageSchema with its
\* thread replies); timestamps count days, datetime.now() being day `now`.
FreshMessage ==
    [text |-> <<"w">>, timestamp |-> -1, replies |-> <<>>]
StaleMessageFreshReply ==
    [text |-> <<"w">>, timestamp |-> -10,
     replies |-> <<[text |-> <<"w">>, timestamp |-> -1, id |-> 1]>>]
BlankMessageWithReply ==
    [text |-> <<" ">>, timestamp |-> -1,
     replies |-> <<[text |-> <<"w">>, timestamp |-> -1, id |-> 1]>>]
WeekOldMessageBlankReply ==
    [text |-> <<"w">>, timestamp |-> -7,
     replies |-> <<[text |-> <<>>, timestamp |-> -7, id |-> 1]>>]
MessageKinds ==
    {FreshMessage, StaleMessageFreshReply, BlankMessageWithReply,
     WeekOldMessageBlankReply}

\* The sequences over S of length at most n.
SeqsUpTo(S, n) == UNION {[1..k -> S] : k \in 0..n}

\* A channel's history: the messages carry their position as id.
History(kinds) ==
    [i \in 1..Len(kinds) |->
        [text |-> kinds[i].text,
         timestamp |-> kinds[i].timestamp,
         replies |-> kinds[i].replies,
         id |-> i]]

\* SlackChannelSchema
Channel(id, name, messages) == [id |-> id, name |-> name, messages |-> messages]

\* SlackCanvasSchema: the content is a list of blocks, with or without text.
EmptyCanvas == [id |-> "F1", title |-> <<"w">>, content |-> <<>>]
UntitledCanvas == [id |-> "F1", title |-> <<>>, content |-> <<>>]
TextCanvas ==
    [id |-> "F1", title |-> <<"w">>,
     content |-> <<[type |-> "divider"], [text |-> <<"w">>]>>]
CanvasLists == {<<>>, <<EmptyCanvas>>, <<UntitledCanvas>>, <<TextCanvas>>}

\* SlackWorkspaceSchema, as fetch_all_workspace_data returns it for a
\* registered workspace: channel C1 with up to n messages, channel C2 with at
\* most one, and at most one canvas.
Snapshot(channels, canvases) ==
    [channels |-> channels, name |-> "Team", canvases |-> canvases]
Snapshots(n) ==
    {Snapshot(<<Channel("C1", "general", History(first)),
                Channel("C2", "random", History(second))>>, canvases) :
        first \in SeqsUpTo(MessageKinds, n),
        second \in SeqsUpTo({FreshMessage}, 1),
        canvases \in CanvasLists}

\* ----------------------------------------------- the pipeline's functions
\* The elements of a list.
Range(seq) == {seq[i] : i \in 1..Len(seq)}

\* Lines 146-147 taking the empty filter for "no channel".
FilterChannelsStrict(workspace_data, channels) ==
    [workspace_data EXCEPT
        !.channels = SelectSeq(@, LAMBDA c : c.id \in Range(channels))]

\* Lines 146-147: `if channels:` keeps the channels whose id is in the list;
\* an empty (or absent) list keeps them all.
FilterChannels(workspace_data, channels) ==
    IF channels # <<>>
    THEN [workspace_data EXCEPT
             !.channels = SelectSeq(@, LAMBDA c : c.id \in Range(channels))]
    ELSE workspace_data

\* `m.timestamp >= cutoff_date` of lines 153-156, for one channel.
RecentMessages(channel, cutoff_date) ==
    [channel EXCEPT
        !.messages = SelectSeq(@, LAMBDA m : m.timestamp >= cutoff_date)]

\* Lines 150-156: `if max_age_days:` is false for None and for 0.
FilterAge(workspace_data, max_age_days, today) ==
    IF max_age_days # None /\ max_age_days[1] # 0
    THEN LET cutoff_date == today - max_age_days[1] IN
         [workspace_data EXCEPT
             !.channels = [i \in DOMAIN @ |-> RecentMessages(@[i], cutoff_date)]]
    ELSE workspace_data

\* Lines 233-250: the Document of a message.
MessageDocument(channel, message) ==
    [page_content |-> message.text, source_type |-> "message",
     channel_id |-> channel.id, message_id |-> message.id]

\* Lines 254-267: the Document of a reply.
ReplyDocument(channel, message, reply) ==
    [page_content |-> reply.text, source_type |-> "reply",
     channel_id |-> channel.id, message_id |-> reply.id,
     parent_message_id |-> message.id]

\* Lines 228-267: a message without text is skipped together with its
\* replies; otherwise the message and each of its replies give a Document.
MessageDocuments(channel, message) ==
    IF Blank(message.text) THEN <<>>
    ELSE <<MessageDocument(channel, message)>> \o
         [i \in 1..Len(message.replies) |->
             ReplyDocument(channel, message, message.replies[i])]

\* Lines 227-228: the Documents of a channel.
ChannelDocuments(channel) ==
    Flatten([i \in 1..Len(channel.messages) |->
                MessageDocuments(channel, channel.messages[i])])

\* Lines 274-280 and 341-347: the text of a canvas's blocks.
BlockText(block) ==
    IF "text" \in DOMAIN block THEN block.text \o <<"\n">>
    ELSE IF "rich_text" \in DOMAIN block
    THEN Flatten([i \in 1..Len(block.rich_text) |->
                    IF "text" \in DOMAIN block.rich_text[i]
                    THEN block.rich_text[i].text \o <<"\n">> ELSE <<>>])
    ELSE <<>>
BlocksText(content) == Flatten([i \in 1..Len(content) |-> BlockText(content[i])])

\* Lines 270-295: the Document of a canvas; its text starts with the title.
CanvasDocument(canvas) ==
    [page_content |-> <<"Canvas: ">> \o canvas.title \o <<"\n", "\n">>
                         \o BlocksText(canvas.content),
     source_type |-> "canvas", canvas_id |-> canvas.id]

\* RecursiveCharacterTextSplitter(chunk_size=1000).split_documents, for texts
\* shorter than a chunk: one chunk with the stripped text, none for a text
\* that is empty or only whitespace.
split_documents(documents) ==
    LET kept == SelectSeq(documents, LAMBDA d : ~Blank(d.page_content)) IN
    [i \in 1..Len(kept) |-> [kept[i] EXCEPT !.page_content = strip(@)]]

\* _prepare_documents, lines 219-298.
prepare_documents(workspace) ==
    split_documents(
        Flatten([i \in 1..Len(workspace.channels) |->
                    ChannelDocuments(workspace.channels[i])])
        \o [i \in 1..Len(workspace.canvases) |->
               CanvasDocument(workspace.canvases[i])])

\* A Python value that json.loads can return: a str, a list or a dict.
Str(text) == [text |-> text, type |-> "str"]
List(items) == [type |-> "list", items |-> items]
Dict(items) == [type |-> "dict", items |-> items]

\* The answer of the completion service (chain.run) to a summary prompt; a
\* summary produced without the service is a fixed text.
Completion(prompt) == [type |-> "completion", prompt |-> prompt]
FixedText(text) == [text |-> text, type |-> "fixed"]

\* channel.messages[:50] of line 312
max_prompt_messages == 50

\* _generate_channel_summary, lines 304-335.
generate_channel_summary(channel) ==
    IF channel.messages = <<>>
    THEN FixedText("Empty channel or no recent messages.")
    ELSE Completion(
            [messages |-> SubSeq(channel.messages, 1,
                                 Min({max_prompt_messages, Len(channel.messages)})),
             kind |-> "channel",
             channel_name |-> channel.name])

\* _generate_canvas_summary, lines 337-371.
generate_canvas_summary(canvas) ==
    IF Blank(BlocksText(canvas.content))
    THEN FixedText("Empty canvas or content could not be processed.")
    ELSE Completion(
            [kind |-> "canvas", canvas_title |-> canvas.title,
             canvas_text |-> BlocksText(canvas.content)])

\* A summary for every retained channel, with or without messages.
ChannelSummariesAll(workspace_data) ==
    [i \in 1..Len(workspace_data.channels) |->
        [value |-> generate_channel_summary(workspace_data.channels[i]),
         key |-> workspace_data.channels[i].id]]

\* Lines 167-171: a dict is the list of its items, in insertion order.
ChannelSummaries(workspace_data) ==
    LET summarised == SelectSeq(workspace_data.channels,
                                LAMBDA c : c.messages # <<>>) IN
    [i \in 1..Len(summarised) |->
        [value |-> generate_channel_summary(summarised[i]),
         key |-> summarised[i].id]]

\* Lines 174-177.
CanvasSummaries(workspace_data, include_canvases) ==
    IF include_canvases /\ workspace_data.canvases # <<>>
    THEN [i \in 1..Len(workspace_data.canvases) |->
             [value |-> generate_canvas_summary(workspace_data.canvases[i]),
              key |-> workspace_data.canvases[i].id]]
    ELSE <<>>

\* The keys of a dict.
Keys(dict) == {dict[i].key : i \in 1..Len(dict)}

\* _generate_workspace_summary, lines 373-431: the i-th item of
\* channel_summaries is labelled with the name of the i-th channel of the
\* workspace.
generate_workspace_summary(workspace, channel_summaries, canvas_summaries, custom_instruction) ==
    LET ids == {workspace.channels[i].id : i \in 1..Len(workspace.channels)}
        labelled ==
           [i \in 1..Len(channel_summaries) |->
               [channel_id |-> channel_summaries[i].key,
                label |-> workspace.channels[i].name,
                summary |-> channel_summaries[i].value]]
    IN
    Completion(
       [channels |-> SelectSeq(labelled, LAMBDA item : item.channel_id \in ids),
        canvases |->
           Flatten([i \in 1..Len(canvas_summaries) |->
              LET same == SelectSeq(workspace.canvases,
                             LAMBDA c : c.id = canvas_summaries[i].key) IN
              [j \in 1..Len(same) |->
                  [label |-> same[j].title,
                   summary |-> canvas_summaries[i].value]]]),
        kind |-> "workspace",
        workspace_name |-> workspace.name,
        instruction_text |->
           IF custom_instruction # None /\ custom_instruction # Some("")
           THEN custom_instruction ELSE None])

\* The first position from i on that holds no whitespace.
SkipWhitespace(text, i) ==
    Min({j \in i..Len(text) : text[j] \notin Whitespace} \cup {Len(text) + 1})

\* json.loads, for texts made of brackets, commas, the string literal "s",
\* the object literal {}, whitespace and words that are no JSON.
Undecodable == [value |-> Str(<<>>), ok |-> FALSE, next |-> 0]
Decoded(value, next) == [value |-> value, ok |-> TRUE, next |-> next]
RECURSIVE ParseValue(_, _), ParseItems(_, _, _)
ParseValue(text, i) ==
    LET j == SkipWhitespace(text, i) IN
    IF j > Len(text) THEN Undecodable
    ELSE IF text[j] = "\"s\"" THEN Decoded(Str(<<"s">>), j + 1)
    ELSE IF text[j] = "{}" THEN Decoded(Dict(<<>>), j + 1)
    ELSE IF text[j] = "["
    THEN LET k == SkipWhitespace(text, j + 1) IN
         IF k <= Len(text) /\ text[k] = "]"
         THEN Decoded(List(<<>>), k + 1)
         ELSE ParseItems(text, j + 1, <<>>)
    ELSE Undecodable
ParseItems(text, i, items) ==
    LET v == ParseValue(text, i) IN
    IF ~v.ok THEN Undecodable
    ELSE LET k == SkipWhitespace(text, v.next) IN
         IF k > Len(text) THEN Undecodable
         ELSE IF text[k] = "]" THEN Decoded(List(Append(items, v.value)), k + 1)
         ELSE IF text[k] = "," THEN ParseItems(text, k + 1, Append(items, v.value))
         ELSE Undecodable
json_loads(text) ==
    LET v == ParseValue(text, 1) IN
    IF v.ok /\ SkipWhitespace(text, v.next) > Len(text) THEN v ELSE Undecodable

\* str.split("\n")
RECURSIVE split_lines(_)
split_lines(text) ==
    LET breaks == {i \in 1..Len(text) : text[i] = "\n"} IN
    IF breaks = {} THEN <<text>>
    ELSE <<SubSeq(text, 1, Min(breaks) - 1)>>
         \o split_lines(SubSeq(text, Min(breaks) + 1, Len(text)))

\* The fallback of lines 470 and 473: insights_text.strip().split("\n").
StrippedLines(text) ==
    LET lines == split_lines(strip(text)) IN
    [i \in 1..Len(lines) |-> Str(lines[i])]

\* _extract_key_insights, lines 463-475, applied to the service's response.
extract_key_insights(insights_text) ==
    LET decoded == json_loads(insights_text) IN
    IF decoded.ok /\ decoded.value.type = "list"
    THEN decoded.value.items
    ELSE StrippedLines(insights_text)

\* The fallback topic of lines 508 and 511.
General ==
    Dict(<<[value |-> "General", key |-> "name"],
           [value |-> "General discussion", key |-> "description"],
           [value |-> <<"general">>, key |-> "keywords"]>>)

\* Topic identification that yields no topic when the response is no list.
identify_topics_or_none(topics_text) ==
    LET decoded == json_loads(topics_text) IN
    IF decoded.ok /\ decoded.value.type = "list"
    THEN decoded.value.items
    ELSE <<>>

\* _identify_topics, lines 502-513, applied to the service's response.
identify_topics(topics_text) ==
    LET decoded == json_loads(topics_text) IN
    IF decoded.ok /\ decoded.value.type = "list"
    THEN decoded.value.items
    ELSE <<General>>

\* The responses of the completion service of at most n tokens.
ResponseTokens == {"[", "]", ",", "\"s\"", "{}", "w", " ", "\n"}
Responses(n) == SeqsUpTo(ResponseTokens, n)

\* SlackAIProcessingResultSchema(...), lines 198-206.
SlackAIProcessingResultSchema(workspace_id, summary, channel_summaries, canvas_summaries, key_insights, topics, processing_time) ==
    [workspace_id |-> workspace_id,
     channel_summaries |-> channel_summaries,
     canvas_summaries |-> canvas_summaries,
     key_insights |-> key_insights,
     topics |-> topics,
     processing_time |-> processing_time,
     summary |-> summary]

\* ------------------------------------------------ the pipeline, step by step
\* Lines 143-209 one step at a time.  The steps between line 143 and line 206
\* touch nothing but the worker's own locals.

\* A call of an external service together with how it ended.
Returned(call) == [outcome |-> "returned", call |-> call]
Raised(call) == [outcome |-> "raised", call |-> call]
Repeat(n, x) == [i \in 1..n |-> x]

\* The external service called at a position of the pipeline.
ServiceAt(pc) ==
    CASE pc = "L143" -> "fetch"
      [] pc = "L164" -> "embedding"
      [] pc = "L166" -> "channel_summary"
      [] pc = "L174" -> "canvas_summary"
      [] pc = "L180" -> "workspace_summary"
      [] pc = "L187" -> "key_insights"
      [] pc = "L192" -> "topics"
CallSites == {"L143", "L164", "L166", "L174", "L180", "L187", "L192"}

\* The completion calls of lines 168-171: one for each channel with messages.
ChannelCalls(workspace_data) ==
    Len(SelectSeq(workspace_data.channels, LAMBDA c : c.messages # <<>>))

\* The completion calls of lines 175-177: one for each canvas with text, when
\* canvases are included.
CanvasCalls(workspace_data, include_canvases) ==
    IF include_canvases
    THEN Len(SelectSeq(workspace_data.canvases,
                       LAMBDA c : ~Blank(BlocksText(c.content))))
    ELSE 0

\* The number of calls that the step at the thread's position makes.
CallsAt(thread) ==
    CASE thread.pc = "L166" -> ChannelCalls(thread.workspace_data[1])
      [] thread.pc = "L174" ->
            CanvasCalls(thread.workspace_data[1], thread.parameters.include_canvases)
      [] OTHER -> 1

\* The step at worker w's position made its n calls and all of them returned.
Called(w, n) ==
    threads[w].calls \o Repeat(n, Returned(ServiceAt(threads[w].pc)))

\* A pipeline step of worker w: the thread moves on, nothing else changes.
Step(w, thread) ==
    /\ threads' = [threads EXCEPT ![w] = thread]
    /\ WorkerStepped
    /\ UNCHANGED <<processing_tasks, work_queue, now>>

\* Line 143: fetch_all_workspace_data returns the workspace as Slack holds it.
FetchWorkspaceData(w, snapshots) ==
    /\ threads[w].pc = "L143"
    /\ threads[w].workspace_id \in clients
    /\ \E snapshot \in snapshots :
          Step(w, [threads[w] EXCEPT !.pc = "L146",
                                     !.fetched = Some(snapshot),
                                     !.workspace_data = Some(snapshot),
                                     !.calls = Called(w, 1)])

\* Lines 145-156: the channel filter, then the age filter.
FilterWorkspaceData(w) ==
    /\ threads[w].pc = "L146"
    /\ Step(w, [threads[w] EXCEPT
                   !.pc = "L160",
                   !.workspace_data =
                      Some(FilterAge(FilterChannels(@[1], threads[w].parameters.channels),
                                     threads[w].parameters.max_age_days,
                                     datetime_now))])

\* Line 215 after a step raised e: the handler writes the status.
Handle(w, e, calls) ==
    /\ processing_tasks' = SetField(threads[w].task_id, "status", "failed")
    /\ threads' = [threads EXCEPT ![w].pc = "L216", ![w].exc = Some(e),
                                  ![w].calls = calls]
    /\ WorkerStepped
    /\ UNCHANGED <<work_queue, now>>

\* Lines 160-162: the corpus; an empty corpus raises.
PrepareDocuments(w) ==
    /\ threads[w].pc = "L160"
    /\ LET documents == prepare_documents(threads[w].workspace_data[1]) IN
       IF documents = <<>>
       THEN Handle(w, EmptyCorpusError, threads[w].calls)
       ELSE Step(w, [threads[w] EXCEPT !.pc = "L164", !.documents = documents])

\* Line 164: FAISS.from_documents embeds the corpus.
CreateVectorStore(w) ==
    /\ threads[w].pc = "L164"
    /\ Step(w, [threads[w] EXCEPT !.pc = "L166", !.calls = Called(w, 1)])

\* Lines 166-171.
GenerateChannelSummaries(w) ==
    /\ threads[w].pc = "L166"
    /\ Step(w, [threads[w] EXCEPT
                   !.pc = "L174",
                   !.channel_summaries = ChannelSummaries(threads[w].workspace_data[1]),
                   !.calls = Called(w, CallsAt(threads[w]))])

\* Lines 173-177.
GenerateCanvasSummaries(w) ==
    /\ threads[w].pc = "L174"
    /\ Step(w, [threads[w] EXCEPT
                   !.pc = "L180",
                   !.canvas_summaries =
                      CanvasSummaries(threads[w].workspace_data[1],
                                      threads[w].parameters.include_canvases),
                   !.calls = Called(w, CallsAt(threads[w]))])

\* Lines 180-185.
GenerateWorkspaceSummary(w) ==
    /\ threads[w].pc = "L180"
    /\ Step(w, [threads[w] EXCEPT
                   !.pc = "L187",
                   !.overall_summary =
                      Some(generate_workspace_summary(
                              threads[w].workspace_data[1],
                              threads[w].channel_summaries,
                              threads[w].canvas_summaries,
                              threads[w].parameters.custom_instruction)),
                   !.calls = Called(w, 1)])

\* Lines 187-190: the service answers the insights prompt with some text.
ExtractKeyInsights(w, responses) ==
    /\ threads[w].pc = "L187"
    /\ \E insights_text \in responses :
          Step(w, [threads[w] EXCEPT
                      !.pc = "L192",
                      !.insights_text = Some(insights_text),
                      !.key_insights = extract_key_insights(insights_text),
                      !.calls = Called(w, 1)])

\* The topics step reporting the task as completed before the result is built.
IdentifyTopicsAfterStatus(w, responses) ==
    /\ threads[w].pc = "L192"
    /\ \E topics_text \in responses :
          threads' = [threads EXCEPT
                         ![w].pc = "L198",
                         ![w].topics_text = Some(topics_text),
                         ![w].topics = identify_topics(topics_text),
                         ![w].calls = Called(w, 1)]
    /\ processing_tasks' = SetField(threads[w].task_id, "status", "completed")
    /\ WorkerStepped
    /\ UNCHANGED <<work_queue, now>>

\* Lines 192-195: the service answers the topics prompt with some text.
IdentifyTopics(w, responses) ==
    /\ threads[w].pc = "L192"
    /\ \E topics_text \in responses :
          Step(w, [threads[w] EXCEPT
                      !.pc = "L198",
                      !.topics_text = Some(topics_text),
                      !.topics = identify_topics(topics_text),
                      !.calls = Called(w, 1)])

\* The validation of the fields List[str] and List[Dict[str, Any]] of
\* SlackAIProcessingResultSchema.
ValidResult(key_insights, topics) ==
    /\ \A i \in 1..Len(key_insights) : key_insights[i].type = "str"
    /\ \A i \in 1..Len(topics) : topics[i].type = "dict"
ValidationError == "ValidationError"

\* Lines 198-209: the result is built and validated, and the status written.
CompleteTask(w) ==
    /\ threads[w].pc = "L198"
    /\ IF ValidResult(threads[w].key_insights, threads[w].topics)
       THEN /\ threads' = [threads EXCEPT
                  ![w].pc = "L210",
                  ![w].result =
                     Some(SlackAIProcessingResultSchema(
                             threads[w].workspace_id,
                             threads[w].overall_summary[1],
                             threads[w].channel_summaries,
                             threads[w].canvas_summaries,
                             threads[w].key_insights,
                             threads[w].topics,
                             datetime_now))]
            /\ processing_tasks' = SetField(threads[w].task_id, "status", "completed")
            /\ WorkerStepped
            /\ UNCHANGED <<work_queue, now>>
       ELSE Handle(w, ValidationError, threads[w].calls)

\* The exception of a failing call: fetch_all_workspace_data raises for an id
\* that is not in clients before it calls Slack; every other call fails upstream.
ErrorAt(thread) ==
    IF thread.pc = "L143" /\ thread.workspace_id \notin clients
    THEN NotRegistered ELSE ServiceError

\* A failing call that is retried on the spot, once per task: the exception
\* is dropped and the step runs again.
CallRaisesRetried(w) ==
    /\ threads[w].pc \in CallSites \ {"L143"}
    /\ CallsAt(threads[w]) >= 1
    /\ \A i \in 1..Len(threads[w].calls) : threads[w].calls[i].outcome = "returned"
    /\ Step(w, [threads[w] EXCEPT
                   !.calls = @ \o <<Raised(ServiceAt(threads[w].pc))>>])

\* Lines 143-195 and 213-215: one of the calls of the step at worker w's
\* position raises, after the calls before it returned.
CallRaises(w) ==
    /\ threads[w].pc \in CallSites
    /\ \E k \in 1..CallsAt(threads[w]) :
          Handle(w, ErrorAt(threads[w]),
                 threads[w].calls
                    \o Repeat(k - 1, Returned(ServiceAt(threads[w].pc)))
                    \o <<Raised(ServiceAt(threads[w].pc))>>)

\* One step of worker w with the pipeline run step by step, Slack holding one
\* of `snapshots` and the completion service answering the insights and the
\* topics prompt with one of the given responses.
run_pipeline(w, snapshots, insights_responses, topics_responses) ==
    \/ Dequeue(w)
    \/ MarkProcessing(w)
    \/ FetchWorkspaceData(w, snapshots)
    \/ FilterWorkspaceData(w)
    \/ PrepareDocuments(w)
    \/ CreateVectorStore(w)
    \/ GenerateChannelSummaries(w)
    \/ GenerateCanvasSummaries(w)
    \/ GenerateWorkspaceSummary(w)
    \/ ExtractKeyInsights(w, insights_responses)
    \/ IdentifyTopics(w, topics_responses)
    \/ CompleteTask(w)
    \/ WriteCompletedAt(w)
    \/ WriteResults(w)
    \/ WriteError(w)
    \/ WriteFailedAt(w)

\* One step of the caller inside start_processing_task for one of `requests`,
\* while fewer than `bound` tasks were started.
StartProcessing(requests, bound) ==
    \/ /\ Cardinality(DOMAIN processing_tasks) < bound
       /\ \E request \in requests :
             StoreTask(request.workspace_id, request.parameters)
    \/ SubmitTask

\* A workspace with messages in both channels and a canvas, and one that is empty.
BusyWorkspace ==
    Snapshot(<<Channel("C1", "general",
                       History(<<FreshMessage, StaleMessageFreshReply>>)),
               Channel("C2", "random", History(<<FreshMessage>>))>>,
             <<TextCanvas>>)
EmptyWorkspace ==
    Snapshot(<<Channel("C1", "general", <<>>), Channel("C2", "random", <<>>)>>,
             <<>>)

\* Responses of the completion service: a list of strings, a list holding a
\* list, and text that is no JSON.
StringList == <<"[", "\"s\"", "]">>
NestedList == <<"[", "[", "]", "]">>
PlainText == <<"w">>

\* Requests for the same workspace with different parameters.
PipelineRequests ==
    {[workspace_id |-> "W1", parameters |-> AllChannels],
     [workspace_id |-> "W1", parameters |-> Filtered]}

\* Tasks for one workspace run concurrently, step by step, with external
\* calls that return or raise.
\* What Slack can hold and what the service can answer to the insights prompt.
PipelineSnapshots == {BusyWorkspace, EmptyWorkspace}
ListResponses == {StringList, NestedList}
PipelineNext ==
    \/ StartProcessing(PipelineRequests, MaxPipelineTasks)
    \/ \E w \in Workers :
          run_pipeline(w, PipelineSnapshots, ListResponses, {PlainText})
    \/ \E w \in Workers : CallRaises(w)

PipelineSpec == Init /\ [][PipelineNext]_vars

\* The parameters of a request: with and without channel filter, canvases
\* and maximum age.
CorpusParameters ==
    [channels : {<<>>, <<"C1">>}, include_canvases : BOOLEAN,
     max_age_days : {None, Some(0), Some(7)}, custom_instruction : {None}]
CorpusRequests ==
    {[workspace_id |-> "W1", parameters |-> p] : p \in CorpusParameters}

\* One task, on any workspace content and with any parameters, with external
\* services that answer.
\* A workspace whose first channel holds one message more than a summary
\* prompt takes.
LongWorkspace ==
    Snapshot(<<Channel("C1", "general",
                       History([i \in 1..(max_prompt_messages + 1) |-> FreshMessage])),
               Channel("C2", "random", <<>>)>>,
             <<>>)

\* What Slack can hold.
CorpusSnapshots == Snapshots(MaxMessages) \cup {LongWorkspace}
CorpusNext ==
    \/ StartProcessing(CorpusRequests, 1)
    \/ \E w \in Workers :
          run_pipeline(w, CorpusSnapshots, {StringList}, {PlainText})

CorpusSpec == Init /\ [][CorpusNext]_vars

\* One task, with any response of the completion service to the insights prompt.
AnyResponse == Responses(MaxLen)
InsightsNext ==
    \/ StartProcessing({[workspace_id |-> "W1", parameters |-> AllChannels]}, 1)
    \/ \E w \in Workers :
          run_pipeline(w, {BusyWorkspace}, AnyResponse, {PlainText})

InsightsSpec == Init /\ [][InsightsNext]_vars

\* One task, with any response of the completion service to the topics prompt.
TopicsNext ==
    \/ StartProcessing({[workspace_id |-> "W1", parameters |-> AllChannels]}, 1)
    \/ \E w \in Workers :
          run_pipeline(w, {BusyWorkspace}, {StringList}, AnyResponse)

TopicsSpec == Init /\ [][TopicsNext]_vars

\* -------------------------------------------- the workspace data provider
\* fetch_all_workspace_data of services/slack_integration.py, call by call.
\* What Slack holds for the registered workspace: a public and a private
\* channel with their histories, and a canvas.
Slack ==
    [name |-> "Team",
     canvases |-> <<TextCanvas>>,
     public |-> <<Channel("C1", "general", History(<<FreshMessage, FreshMessage>>))>>,
     private |-> <<Channel("P1", "staff", History(<<FreshMessage>>))>>]

\* The calls of the Slack API that the fetch makes; each of a set `failing`
\* of them raises SlackApiError.
conversations_history(channel_id) ==
    CASE channel_id = "C1" -> "conversations_history C1"
      [] channel_id = "P1" -> "conversations_history P1"
UpstreamCalls ==
    {"team_info", "users_list", "conversations_list public",
     "conversations_list private", conversations_history("C1"),
     conversations_history("P1"), "canvas_list"}
Upstream(call, failing) == IF call \in failing THEN Raised(call) ELSE Returned(call)

\* str(e) of the IntegrationErrors raised at lines 123, 145, 184 and 239.
FetchFailed == "Failed to fetch Slack workspace data"
UsersFailed == "Failed to fetch Slack users"
ChannelsFailed == "Failed to fetch Slack channels"
MessagesFailed == "Failed to fetch Slack messages"
IntegrationErrors ==
    {NotRegistered, FetchFailed, UsersFailed, ChannelsFailed, MessagesFailed}

\* What a function of the provider did: the value it returned (None when it
\* raised), the IntegrationError it raised (None when it returned) and the
\* calls of the Slack API that it made.
Return(value, calls) == [calls |-> calls, error |-> None, value |-> Some(value)]
Raise(error, calls) == [calls |-> calls, error |-> Some(error), value |-> None]

\* fetch_channels giving up when the private channels cannot be listed.
fetch_channels_strict(slack, failing) ==
    IF "conversations_list public" \in failing
          \/ "conversations_list private" \in failing
    THEN Raise(ChannelsFailed,
               IF "conversations_list public" \in failing
               THEN <<Raised("conversations_list public")>>
               ELSE <<Returned("conversations_list public"),
                      Raised("conversations_list private")>>)
    ELSE Return([i \in 1..Len(slack.public \o slack.private) |->
                    [(slack.public \o slack.private)[i] EXCEPT !.messages = <<>>]],
                <<Returned("conversations_list public"),
                  Returned("conversations_list private")>>)

\* fetch_channels, lines 148-184: the public channels, then the private ones
\* unless listing them fails; the messages are filled in later.
fetch_channels(slack, failing) ==
    IF "conversations_list public" \in failing
    THEN Raise(ChannelsFailed, <<Raised("conversations_list public")>>)
    ELSE LET listed == slack.public \o
                          (IF "conversations_list private" \in failing
                           THEN <<>> ELSE slack.private)
         IN Return([i \in 1..Len(listed) |-> [listed[i] EXCEPT !.messages = <<>>]],
                   <<Returned("conversations_list public"),
                     Upstream("conversations_list private", failing)>>)

\* Lines 103-104 with fetch_messages, lines 186-239: the histories of the
\* channels in turn, up to the first that cannot be read.
fetch_histories(slack, channels, failing) ==
    LET broken == {i \in 1..Len(channels) :
                      conversations_history(channels[i].id) \in failing}
        last == Min(broken \cup {Len(channels)})
        calls == [i \in 1..last |->
                     Upstream(conversations_history(channels[i].id), failing)]
        stored == slack.public \o slack.private
    IN
    IF broken # {} THEN Raise(MessagesFailed, calls)
    ELSE Return([i \in 1..Len(channels) |->
                    (CHOOSE c \in Range(stored) : c.id = channels[i].id)],
                calls)

\* fetch_canvases, lines 269-293: no canvas when they cannot be listed.
fetch_canvases(slack, failing) ==
    IF "canvas_list" \in failing
    THEN Return(<<>>, <<Raised("canvas_list")>>)
    ELSE Return(slack.canvases, <<Returned("canvas_list")>>)

\* fetch_all_workspace_data, lines 76-123.
fetch_all_workspace_data(workspace_id, slack, failing) ==
    IF workspace_id \notin clients THEN Raise(NotRegistered, <<>>)
    ELSE IF "team_info" \in failing THEN Raise(FetchFailed, <<Raised("team_info")>>)
    ELSE IF "users_list" \in failing
    THEN Raise(UsersFailed, <<Returned("team_info"), Raised("users_list")>>)
    ELSE
    LET before == <<Returned("team_info"), Returned("users_list")>>
        channels == fetch_channels(slack, failing)
    IN
    IF channels.error # None
    THEN Raise(channels.error[1], before \o channels.calls)
    ELSE
    LET messages == fetch_histories(slack, channels.value[1], failing) IN
    IF messages.error # None
    THEN Raise(messages.error[1], before \o channels.calls \o messages.calls)
    ELSE
    LET canvases == fetch_canvases(slack, failing) IN
    Return(Snapshot(messages.value[1], canvases.value[1]),
           before \o channels.calls \o messages.calls \o canvases.calls)

\* Line 143 with the provider run call by call: any set of the upstream calls
\* can fail.
FetchFromSlack(w) ==
    /\ threads[w].pc = "L143"
    /\ \E failing \in SUBSET UpstreamCalls :
          LET fetched == fetch_all_workspace_data(threads[w].workspace_id,
                                                  Slack, failing)
          IN
          IF fetched.error # None
          THEN Handle(w, fetched.error[1], threads[w].calls \o fetched.calls)
          ELSE Step(w, [threads[w] EXCEPT !.pc = "L146",
                                          !.fetched = fetched.value,
                                          !.workspace_data = fetched.value,
                                          !.calls = @ \o fetched.calls])

\* Tasks for a registered and for an unregistered workspace, with a Slack API
\* whose calls can fail and services that answer.
FetchRequests ==
    {[workspace_id |-> "W1", parameters |-> AllChannels],
     [workspace_id |-> "W2", parameters |-> AllChannels]}
FetchNext ==
    \/ StartProcessing(FetchRequests, MaxFetchTasks)
    \/ \E w \in Workers :
          \/ Dequeue(w)
          \/ MarkProcessing(w)
          \/ FetchFromSlack(w)
          \/ FilterWorkspaceData(w)
          \/ PrepareDocuments(w)
          \/ CreateVectorStore(w)
          \/ GenerateChannelSummaries(w)
          \/ GenerateCanvasSummaries(w)
          \/ GenerateWorkspaceSummary(w)
          \/ ExtractKeyInsights(w, {StringList})
          \/ IdentifyTopics(w, {PlainText})
          \/ CompleteTask(w)
          \/ WriteCompletedAt(w)
          \/ WriteResults(w)
          \/ WriteError(w)
          \/ WriteFailedAt(w)

FetchSpec == Init /\ [][FetchNext]_vars

\* ------------------------------------------------------- the HTTP routes
\* The handlers of api/routes/slack.py.  A reply is recorded in `ret`: its
\* HTTP status in outcome, the detail of an HTTPException in view.error, the
\* body of a 200 in view.results, and in view.status the task's status as the
\* handler read it.
NotCompletedYet == "Task not completed yet"
ResultsFailed == "Failed to get task results"
InternalServerError == "Internal Server Error"
HTTPException(status_code, detail) == [status_code |-> status_code, detail |-> detail]
ProcessingError(detail) == [status_code |-> "none", detail |-> detail]

\* The reply of the results endpoint for an exception of its try block.
Reply(task_id, status, exception) ==
    [NoCall EXCEPT !.op = "results_route", !.task_id = task_id,
                   !.outcome = exception.status_code,
                   !.view.status = status,
                   !.view.error = Some(exception.detail)]

\* Lines 153-154: `except Exception` catches whatever the try block raised,
\* the HTTPException of line 148 included, and raises a 500 in its place.
get_processing_results_except(exception) == HTTPException("500", ResultsFailed)

\* get_processing_results, lines 146-148: get_task_status and the status test.
ResultsRouteStatus(task_id) ==
    /\ caller.pc = "idle"
    /\ IF NotFound(task_id)
       THEN /\ ret' = Reply(task_id, "",
                         get_processing_results_except(ProcessingError("not found")))
            /\ caller' = IdleCaller
       ELSE IF processing_tasks[task_id].status # "completed"
       THEN /\ ret' = Reply(task_id, processing_tasks[task_id].status,
                         get_processing_results_except(
                            HTTPException("400", NotCompletedYet)))
            /\ caller' = IdleCaller
       ELSE /\ caller' = [IdleCaller EXCEPT
                             !.pc = "R151", !.task_id = task_id,
                             !.status = processing_tasks[task_id].status]
            /\ ret' = NoCall
    /\ UNCHANGED <<processing_tasks, work_queue, threads, now>>

\* get_processing_results, lines 151-152: get_task_results and the reply,
\* whose body must be a SlackAIProcessingResultSchema (line 137).
ResultsRouteReturn ==
    /\ caller.pc = "R151"
    /\ LET task == processing_tasks[caller.task_id] IN
       ret' = IF NotReady(task.status)
              THEN Reply(caller.task_id, caller.status,
                      get_processing_results_except(ProcessingError("not completed")))
              ELSE IF task.results = None
              THEN Reply(caller.task_id, caller.status,
                      HTTPException("500", InternalServerError))
              ELSE [NoCall EXCEPT !.op = "results_route",
                                  !.task_id = caller.task_id,
                                  !.outcome = "200",
                                  !.view.status = caller.status,
                                  !.view.results = task.results]
    /\ caller' = IdleCaller
    /\ UNCHANGED <<processing_tasks, work_queue, threads, now>>

\* The service behind its results endpoint: a client starts tasks and asks
\* for their results while the workers run.
RouteNext ==
    \/ start_processing_task(MaxTasks)
    \/ \E task_id \in RequestIds : ResultsRouteStatus(task_id)
    \/ ResultsRouteReturn
    \/ \E w \in Workers : process_workspace_data(w)

RouteSpec == Init /\ [][RouteNext]_vars

\* The process endpoint, POST /slack/process (lines 83-120).
WorkspaceNotFound == "Workspace not found"
StartFailed == "Failed to start processing"

\* Lines 119-120: `except Exception` catches whatever the try block raised,
\* the HTTPException of line 103 included, and raises a 500 in its place.
process_route_except(exception) == HTTPException("500", StartFailed)

\* The reply of the process endpoint to a request for workspace_id.
ProcessReply(workspace_id, task_id, status_code, detail) ==
    [NoCall EXCEPT !.op = "process_route", !.task_id = task_id,
                   !.outcome = status_code,
                   !.view.workspace_id = workspace_id,
                   !.view.error = detail]

\* Lines 102-112: the test of line 102, then either the exception of line 103
\* on its way through the handler of line 119, or start_processing_task up to
\* the point where the entry is stored.
ProcessRouteStart(request) ==
    /\ caller.pc = "idle"
    /\ IF request.workspace_id \notin clients
       THEN /\ ret' = LET e == process_route_except(
                                  HTTPException("404", WorkspaceNotFound))
                      IN ProcessReply(request.workspace_id, UnknownId,
                                      e.status_code, Some(e.detail))
            /\ UNCHANGED <<processing_tasks, work_queue, threads, now, caller>>
       ELSE StoreTask(request.workspace_id, request.parameters)

\* Lines 106-118: executor.submit inside start_processing_task, and the reply
\* with the task id.
ProcessRouteSubmit ==
    /\ caller.pc = "L88"
    /\ work_queue' = Append(work_queue, WorkItem(caller.task_id))
    /\ ret' = ProcessReply(processing_tasks[caller.task_id].workspace_id,
                           caller.task_id, "200", None)
    /\ caller' = [IdleCaller EXCEPT !.submitted = caller.task_id]
    /\ UNCHANGED <<processing_tasks, threads, now>>

\* The service behind its process endpoint: clients ask for tasks on a
\* registered and on an unregistered workspace while the workers run.
ProcessRouteNext ==
    \/ /\ Cardinality(DOMAIN processing_tasks) < MaxTasks
       /\ \E request \in Requests : ProcessRouteStart(request)
    \/ ProcessRouteSubmit
    \/ \E w \in Workers : process_workspace_data(w)

ProcessRouteSpec == Init /\ [][ProcessRouteNext]_vars

\* ------------------------------------------------------------ properties
StatusOf(t) == processing_tasks[t].status

\* C1: a task's status changes only along queued -> processing,
\* processing -> completed and processing -> failed, whatever the caller and
\* the workers do; nothing leaves completed or failed.
StatusTransitions ==
    {<<"queued", "processing">>, <<"processing", "completed">>,
     <<"processing", "failed">>}
C1_StatusMonotonic ==
    [][\A t \in DOMAIN processing_tasks :
          \/ processing_tasks'[t].status = StatusOf(t)
          \/ <<StatusOf(t), processing_tasks'[t].status>> \in StatusTransitions]_vars
\* One task completed, another failed, and the caller has just polled.
C1_Witness ==
    /\ \E t, u \in DOMAIN processing_tasks :
          StatusOf(t) = "completed" /\ StatusOf(u) = "failed"
    /\ \A w \in Workers : threads[w].pc = "idle"
    /\ ret.op = "status"

\* The task was handed to the executor.
Submitted(t) ==
    /\ t \in DOMAIN processing_tasks
    /\ ~(caller.pc = "L88" /\ caller.task_id = t)

\* C2: under fair scheduling of the worker threads, with every external call
\* returning or raising, every submitted task eventually has status completed
\* or failed.
Terminated(t) == t \in DOMAIN processing_tasks /\ StatusOf(t) \in Terminal
C2_EveryTaskTerminates ==
    \A t \in 1..MaxLiveTasks : Submitted(t) ~> Terminated(t)
\* More tasks than the pool has workers were started, and all of them have
\* reached a terminal status.
C2_Witness ==
    /\ Cardinality(DOMAIN processing_tasks) > max_workers
    /\ \A t \in DOMAIN processing_tasks : StatusOf(t) \in Terminal

Known(t) == t \in DOMAIN processing_tasks
InQueue(t) == \E i \in 1..Len(work_queue) : work_queue[i].task_id = t
Busy(w) == threads[w].pc # "idle"

\* The caller's last call was get_task_status for the id that the call before
\* it, start_processing_task, had returned.
StatusAfterSubmit == ret.op = "status" /\ ret.after_submit

\* C3 as stated: that get_task_status reports queued in every interleaving.
C3_StatusAfterSubmitIsQueued ==
    StatusAfterSubmit => ret.outcome = "ok" /\ ret.view.status = "queued"

\* C3 as amended: get_task_status called right after start_processing_task
\* returned never raises not-found and reports queued as long as the task waits
\* in the executor's queue; once a worker has taken the task the reported
\* status is queued, processing, completed or failed.
C3_StatusAfterSubmit ==
    StatusAfterSubmit =>
       /\ ret.outcome = "ok"
       /\ ret.view.status \in Statuses
       /\ InQueue(ret.task_id) => ret.view.status = "queued"
\* The first poll after the submission already reports completed.
C3_Witness ==
    StatusAfterSubmit /\ ret.view.status = "completed"

\* The step of lines 69-85, and the step of lines 88-98.
StoreStep == caller.pc = "idle" /\ caller'.pc = "L88"
SubmitStep == caller.pc = "L88" /\ caller'.pc = "idle"
Fresh(entry) ==
    /\ entry.status = "queued"
    /\ entry.results = None
    /\ entry.error = None
    /\ entry.completed_at = None

\* C4: start_processing_task adds exactly one entry, with status queued and
\* results, error and completed_at None, and leaves every other entry alone;
\* the entry is still so when the work is handed to the executor; the call
\* returns the new id, involves no worker step and is never blocked by busy
\* workers or waiting tasks.
C4_SubmitInsertsQueuedEntry ==
    /\ [][StoreStep =>
            /\ DOMAIN processing_tasks' = DOMAIN processing_tasks \cup {caller'.task_id}
            /\ caller'.task_id \notin DOMAIN processing_tasks
            /\ Fresh(processing_tasks'[caller'.task_id])
            /\ \A t \in DOMAIN processing_tasks :
                  processing_tasks'[t] = processing_tasks[t]
            /\ ~InQueue(caller'.task_id)
            /\ UNCHANGED <<work_queue, threads>>]_vars
    /\ [][SubmitStep =>
            /\ Fresh(processing_tasks[caller.task_id])
            /\ ~InQueue(caller.task_id)
            /\ work_queue' = Append(work_queue, work_queue'[Len(work_queue')])
            /\ work_queue'[Len(work_queue')].task_id = caller.task_id
            /\ ret'.op = "start" /\ ret'.outcome = "ok"
            /\ ret'.task_id = caller.task_id
            /\ UNCHANGED <<processing_tasks, threads>>]_vars
    /\ [](caller.pc = "L88" => ENABLED SubmitTask)
\* start_processing_task has just returned while both workers are busy and
\* another task is waiting in the queue before the new one.
C4_Witness ==
    /\ ret.op = "start"
    /\ \A w \in Workers : Busy(w)
    /\ Len(work_queue) >= 2
    /\ work_queue[Len(work_queue)].task_id = ret.task_id

\* C5: get_task_results on a task whose status is completed returns a
\* result, never None.
C5_CompletedHasResult ==
    (ret.op = "results" /\ ret.outcome = "ok") => ret.view.results # None

\* C6: completed_at is None exactly while the status is queued or processing,
\* and otherwise is a time not before started_at.
C6_CompletedAtMatchesStatus ==
    \A t \in DOMAIN processing_tasks :
       LET task == processing_tasks[t] IN
       /\ (task.completed_at = None) <=> (task.status \in {"queued", "processing"})
       /\ task.completed_at # None => task.completed_at[1] >= task.started_at[1]

\* C7: an entry whose status is completed or failed is never changed again.
C7_TerminalIsImmutable ==
    [][\A t \in DOMAIN processing_tasks :
          StatusOf(t) \in Terminal => processing_tasks'[t] = processing_tasks[t]]_vars

\* C8: get_task_results returns the stored result exactly when the task's
\* status is completed; for a known task that is queued, processing or failed
\* it raises not-ready and returns nothing.
C8_ResultsOnlyWhenCompleted ==
    (ret.op = "results" /\ Known(ret.task_id)) =>
       /\ (ret.outcome = "ok") <=> (StatusOf(ret.task_id) = "completed")
       /\ ret.outcome = "ok" => ret.view.results = processing_tasks[ret.task_id].results
       /\ ret.outcome # "ok" => ret.outcome = "not_ready" /\ ret.view.results = None
\* get_task_results has just refused a failed task.
C8_Witness ==
    /\ ret.op = "results" /\ ret.outcome = "not_ready"
    /\ Known(ret.task_id) /\ StatusOf(ret.task_id) = "failed"

\* C9: get_task_status and get_task_results raise not-found exactly for the ids
\* that start_processing_task has not returned, and no entry is ever removed.
C9_NotFoundIffUnknown ==
    /\ [](ret.op \in {"status", "results"} =>
            ((ret.outcome = "not_found") <=> ~Known(ret.task_id)))
    /\ [][DOMAIN processing_tasks \subseteq DOMAIN processing_tasks']_vars
\* An unknown id was refused while finished and unfinished tasks exist.
C9_Witness ==
    /\ ret.op = "results" /\ ret.outcome = "not_found"
    /\ \E t, u \in DOMAIN processing_tasks :
          StatusOf(t) \in Terminal /\ StatusOf(u) = "processing"

\* A step of get_task_status or get_task_results.
PollPcs == {"idle", "L112", "L113", "L126"}
PollStep ==
    /\ caller.pc \in PollPcs /\ caller'.pc \in PollPcs
    /\ \/ caller'.pc # caller.pc
       \/ ret' # ret /\ ret'.op \in {"status", "results"}

\* C10: no step of get_task_status or get_task_results changes the registry or
\* the work queue, whatever the call returns or raises; and a get_task_status
\* call that repeats the call before it, with no worker step since that call
\* began, returns the same answer.
C10_PollsArePure ==
    /\ [][PollStep => UNCHANGED <<processing_tasks, work_queue>>]_vars
    /\ [][(ret'.op = "status" /\ ret'.repeat /\ ret'.clean) =>
             ret'.outcome = ret.outcome /\ ret'.view = ret.view]_vars
\* A repeated get_task_status on a task whose worker is between two writes.
C10_Witness ==
    /\ ret.op = "status" /\ ret.repeat /\ ret.clean
    /\ ret.view.status = "completed" /\ ret.view.completed_at = None

\* The tasks that worker threads are executing, and the workers whose
\* pipeline, with its calls of the external services, is under way.
Executing(t) == \E w \in DOMAIN threads : Busy(w) /\ threads[w].task_id = t
InFlight(w) == threads[w].pc = "L143"

\* C11: at every moment at most max_workers = 2 tasks are being executed by
\* worker threads, at most 2 tasks have status processing (each of them held
\* by a worker of its own) and at most 2 pipelines are making external calls,
\* however many tasks were submitted.
C11_AtMostTwoProcessing ==
    /\ Cardinality({t \in DOMAIN processing_tasks : Executing(t)}) <= max_workers
    /\ Cardinality({t \in DOMAIN processing_tasks : StatusOf(t) = "processing"})
          <= max_workers
    /\ \A t \in DOMAIN processing_tasks :
          StatusOf(t) = "processing" =>
             \E w \in DOMAIN threads : threads[w].task_id = t /\ InFlight(w)
    /\ Cardinality({w \in DOMAIN threads : InFlight(w)}) <= max_workers
\* Four tasks were submitted: two are processing, two are waiting in the queue.
C11_Witness ==
    /\ Cardinality(DOMAIN processing_tasks) = MaxPoolTasks
    /\ Cardinality({t \in DOMAIN processing_tasks : StatusOf(t) = "processing"})
          = max_workers
    /\ Len(work_queue) = MaxPoolTasks - max_workers

\* The workers executing task t, and the number of times t is in the queue.
Holders(t) == {w \in DOMAIN threads : Busy(w) /\ threads[w].task_id = t}
Occurrences(t) ==
    Cardinality({i \in 1..Len(work_queue) : work_queue[i].task_id = t})
\* Where a task is on its way through the executor.
Phase(t) ==
    IF ~Submitted(t) THEN "stored"
    ELSE IF InQueue(t) THEN "waiting"
    ELSE IF Holders(t) # {} THEN "running"
    ELSE "finished"
PhaseTransitions ==
    {<<"stored", "waiting">>, <<"waiting", "running">>, <<"running", "finished">>}

\* C12: a submitted task is in the queue once and held by no worker, or out
\* of the queue and held by exactly one worker, or out of both with a terminal
\* status; it moves through these phases in this order only, the worker that
\* holds it never changes, and a finished task (failed ones included) is never
\* put back into the queue or taken by a worker again.
C12_ExecutedAtMostOnce ==
    /\ [](\A t \in DOMAIN processing_tasks :
            /\ Occurrences(t) + Cardinality(Holders(t)) <= 1
            /\ Phase(t) = "waiting" => StatusOf(t) = "queued"
            /\ Phase(t) = "finished" => StatusOf(t) \in Terminal)
    /\ [][\A t \in DOMAIN processing_tasks :
            /\ \/ Phase(t)' = Phase(t)
               \/ <<Phase(t), Phase(t)'>> \in PhaseTransitions
            /\ (Phase(t) = "running" /\ Phase(t)' = "running") =>
                  Holders(t)' = Holders(t)]_vars
\* A failed task is finished while the worker that ran it executes the next
\* task and the other worker is busy too.
C12_Witness ==
    /\ \E t \in DOMAIN processing_tasks :
          StatusOf(t) = "failed" /\ Phase(t) = "finished"
    /\ \A w \in Workers : Busy(w)

\* C14: in every state that get_task_status observes, the error is present
\* exactly when the status is failed.
C14_ErrorMatchesStatus ==
    (ret.op = "status" /\ ret.outcome = "ok" /\ ret.clean) =>
       ((ret.view.status = "failed") <=> (ret.view.error # None))

\* The worker is in the handler of lines 213-217.
Failing(w) == threads[w].pc \in {"L216", "L217"}

\* C13: once a step of a task's pipeline has raised, no further step of that
\* task is run and no further call made: the worker only runs the handler,
\* which ends the task as failed with results None, and is then free to take
\* the next task from the queue; start_processing_task returns normally
\* whatever happens in the workers.
C13_FailFast ==
    /\ [](\A w \in Workers :
            /\ \A i \in 1..Len(threads[w].calls) :
                  threads[w].calls[i].outcome = "raised" =>
                     i = Len(threads[w].calls) /\ Failing(w)
            /\ Failing(w) =>
                  /\ StatusOf(threads[w].task_id) = "failed"
                  /\ threads[w].exc # None /\ threads[w].result = None
            /\ Failing(w) => ENABLED (WriteError(w) \/ WriteFailedAt(w))
            /\ (~Busy(w) /\ work_queue # <<>>) => ENABLED Dequeue(w))
    /\ [](\A t \in DOMAIN processing_tasks :
            StatusOf(t) = "failed" => processing_tasks[t].results = None)
    /\ [](ret.op = "start" => ret.outcome = "ok")
    /\ [][\A w \in Workers :
            Failing(w) =>
               \/ threads'[w] = IdleThread
               \/ /\ threads'[w].pc \in {"L216", "L217"}
                  /\ threads'[w].calls = threads[w].calls
                  /\ threads'[w].task_id = threads[w].task_id
                  /\ threads'[w].result = None]_vars
\* A task that was stopped by a failing external call has ended as failed,
\* without results, while a worker is running another task's pipeline.
C13_Witness ==
    /\ \E t \in DOMAIN processing_tasks :
          /\ Phase(t) = "finished" /\ StatusOf(t) = "failed"
          /\ processing_tasks[t].error = Some(ServiceError)
          /\ processing_tasks[t].results = None
    /\ \E w \in Workers : threads[w].pc = "L180"

\* The result of the pipeline for a workspace content, the parameters of a
\* task and the responses of the completion service.
PipelineResult(workspace_id, parameters, snapshot, insights_text, topics_text, today) ==
    LET workspace_data ==
           FilterAge(FilterChannels(snapshot, parameters.channels),
                     parameters.max_age_days, today)
        channel_summaries == ChannelSummaries(workspace_data)
        canvas_summaries ==
           CanvasSummaries(workspace_data, parameters.include_canvases)
    IN SlackAIProcessingResultSchema(
          workspace_id,
          generate_workspace_summary(workspace_data, channel_summaries,
                                     canvas_summaries,
                                     parameters.custom_instruction),
          channel_summaries, canvas_summaries,
          extract_key_insights(insights_text), identify_topics(topics_text),
          today)

\* C15: every start_processing_task draws an id that no task has yet, also for
\* a workspace that already has tasks; a step changes at most one entry, the
\* one of the task of the worker that takes the step; a worker runs with the
\* workspace id and the parameters of its own task; and a stored result
\* carries the task's workspace id and is what the pipeline yields for the
\* task's own parameters.
C15_TasksAreIsolated ==
    /\ [][StoreStep => caller'.task_id \notin DOMAIN processing_tasks]_vars
    /\ [][\A t \in DOMAIN processing_tasks :
             processing_tasks'[t] # processing_tasks[t] =>
                \E w \in Workers :
                   /\ Busy(w) /\ threads[w].task_id = t
                   /\ \A u \in DOMAIN processing_tasks \ {t} :
                         processing_tasks'[u] = processing_tasks[u]
                   /\ \A v \in Workers \ {w} : threads'[v] = threads[v]]_vars
    /\ [](\A w \in Workers :
            Busy(w) =>
               /\ threads[w].workspace_id =
                     processing_tasks[threads[w].task_id].workspace_id
               /\ threads[w].parameters =
                     processing_tasks[threads[w].task_id].parameters)
    /\ [](\A t \in DOMAIN processing_tasks :
            processing_tasks[t].results # None =>
               /\ processing_tasks[t].results[1].workspace_id =
                     processing_tasks[t].workspace_id
               /\ \E snapshot \in PipelineSnapshots, insights_text \in ListResponses :
                     processing_tasks[t].results[1] =
                        PipelineResult(processing_tasks[t].workspace_id,
                                       processing_tasks[t].parameters,
                                       snapshot, insights_text, PlainText, now))
\* Two tasks for the same workspace, with different parameters, have both
\* stored their results, which differ.
C15_Witness ==
    /\ \E t, u \in DOMAIN processing_tasks :
          /\ processing_tasks[t].workspace_id = processing_tasks[u].workspace_id
          /\ processing_tasks[t].parameters # processing_tasks[u].parameters
          /\ processing_tasks[t].results # None
          /\ processing_tasks[u].results # None
          /\ processing_tasks[t].results # processing_tasks[u].results

\* The worker has run the filters of lines 145-156, resp. has built the
\* corpus of lines 160-162.
PastFilter(w) == threads[w].pc \notin {"idle", "L140", "L143", "L146"}
PastCorpus(w) == PastFilter(w) /\ threads[w].pc # "L160"

\* The workspace holds no message in its channels.
NoMessages(workspace) ==
    \A i \in 1..Len(workspace.channels) : workspace.channels[i].messages = <<>>

\* C16: when include_canvases is false, no Document of the corpus comes from
\* a canvas and canvas_summaries stays empty; a workspace that then holds
\* canvases but no message has an empty corpus, so the task fails with the
\* empty-corpus error.
C16_NoCanvasWhenExcluded ==
    \A w \in Workers :
       (PastCorpus(w) /\ ~threads[w].parameters.include_canvases) =>
          /\ \A i \in 1..Len(threads[w].documents) :
                threads[w].documents[i].source_type # "canvas"
          /\ threads[w].canvas_summaries = <<>>
          /\ NoMessages(threads[w].workspace_data[1]) =>
                threads[w].exc = Some(EmptyCorpusError)

\* No message, reply or canvas of the workspace has text other than whitespace.
NoText(workspace) ==
    /\ \A i \in 1..Len(workspace.channels) :
          \A j \in 1..Len(workspace.channels[i].messages) :
             LET message == workspace.channels[i].messages[j] IN
             /\ Blank(message.text)
             /\ \A k \in 1..Len(message.replies) : Blank(message.replies[k].text)
    /\ \A i \in 1..Len(workspace.canvases) :
          /\ Blank(workspace.canvases[i].title)
          /\ Blank(BlocksText(workspace.canvases[i].content))

\* C17: when the filtered workspace holds no text, the corpus is empty and the
\* task fails with the empty-corpus error after the fetch, without a call of
\* the embedding or the completion service.
C17_EmptyCorpusFails ==
    \A w \in Workers :
       (PastCorpus(w) /\ NoText(threads[w].workspace_data[1])) =>
          /\ threads[w].documents = <<>>
          /\ threads[w].exc = Some(EmptyCorpusError)
          /\ threads[w].calls = <<Returned("fetch")>>

\* The ids of a list of channels, in order.
Ids(channels) == [i \in 1..Len(channels) |-> channels[i].id]
\* The (channel id, message id) pairs of the messages with text.
TextMessages(workspace) ==
    UNION {{<<workspace.channels[i].id, workspace.channels[i].messages[j].id>> :
               j \in {k \in 1..Len(workspace.channels[i].messages) :
                         ~Blank(workspace.channels[i].messages[k].text)}} :
           i \in 1..Len(workspace.channels)}
\* The (channel id, message id) pairs of the Documents made from messages.
DocumentedMessages(documents) ==
    {<<documents[i].channel_id, documents[i].message_id>> :
        i \in {k \in 1..Len(documents) : documents[k].source_type = "message"}}

\* C18: with a non-empty channel filter the channels retained are those of
\* the workspace whose id is in the filter, with an empty filter all of them;
\* the messages with text of the retained channels, and no others, give
\* message Documents, replies are documented under retained channels only,
\* and a channel summary exists for exactly the retained channels that hold
\* messages.
C18_ChannelFilter ==
    \A w \in Workers :
       PastFilter(w) =>
          LET channels == threads[w].parameters.channels
              fetched == threads[w].fetched[1]
              workspace_data == threads[w].workspace_data[1]
              retained == Range(Ids(workspace_data.channels))
          IN
          /\ Ids(workspace_data.channels) =
                IF channels # <<>>
                THEN SelectSeq(Ids(fetched.channels), LAMBDA id : id \in Range(channels))
                ELSE Ids(fetched.channels)
          /\ (PastCorpus(w) /\ ~Failing(w)) =>
                /\ DocumentedMessages(threads[w].documents) =
                      TextMessages(workspace_data)
                /\ \A i \in 1..Len(threads[w].documents) :
                      threads[w].documents[i].source_type # "canvas" =>
                         threads[w].documents[i].channel_id \in retained
          /\ threads[w].pc \in {"L174", "L180", "L187", "L192", "L198", "L210", "L211"} =>
                Keys(threads[w].channel_summaries) =
                   {workspace_data.channels[i].id :
                       i \in {k \in 1..Len(workspace_data.channels) :
                                 workspace_data.channels[k].messages # <<>>}}
\* Channel C1 holds three messages with text, channel C2 none, and the filter
\* is empty: the corpus is the three Documents of C1's messages.
C18_Witness ==
    \E w \in Workers :
       /\ threads[w].pc = "L164"
       /\ threads[w].parameters.channels = <<>>
       /\ threads[w].fetched[1].channels[2].messages = <<>>
       /\ Len(threads[w].documents) = 3
       /\ \A i \in 1..3 :
             /\ threads[w].documents[i].source_type = "message"
             /\ threads[w].documents[i].channel_id = "C1"
             /\ threads[w].documents[i].message_id = i

\* C19: whenever max_age_days is given, 0 included, the messages retained in
\* a channel are exactly those with a timestamp at or after now minus
\* max_age_days days, and no Document comes from a message before that or
\* from one of its replies; when it is not given, every message is retained.
C19_AgeFilter ==
    \A w \in Workers :
       PastFilter(w) =>
          LET max_age_days == threads[w].parameters.max_age_days
              before == FilterChannels(threads[w].fetched[1],
                                       threads[w].parameters.channels)
              workspace_data == threads[w].workspace_data[1]
          IN
          \A i \in 1..Len(before.channels) :
             workspace_data.channels[i].messages =
                IF max_age_days # None
                THEN SelectSeq(before.channels[i].messages,
                               LAMBDA m : m.timestamp >= now - max_age_days[1])
                ELSE before.channels[i].messages

\* The lines of a text that are not empty.
NonEmptyLines(text) ==
    LET lines == SelectSeq(split_lines(text), LAMBDA line : line # <<>>) IN
    [i \in 1..Len(lines) |-> Str(lines[i])]

\* C20: _extract_key_insights returns the decoded list when the response is a
\* JSON array, and otherwise the non-empty lines of the (stripped) response,
\* in order; no insight it returns from lines is the empty string.
C20_InsightsParsed ==
    \A w \in Workers :
       threads[w].insights_text # None =>
          LET insights_text == threads[w].insights_text[1]
              decoded == json_loads(insights_text)
          IN
          IF decoded.ok /\ decoded.value.type = "list"
          THEN threads[w].key_insights = decoded.value.items
          ELSE /\ threads[w].key_insights = NonEmptyLines(strip(insights_text))
               /\ \A i \in 1..Len(threads[w].key_insights) :
                     threads[w].key_insights[i].text # <<>>

\* C21: whatever the completion service answers to the insights prompt, the
\* insight step and the assembly of the result that follows succeed: the
\* task's pipeline does not enter the handler and the task does not fail.
C21_InsightsNeverFail ==
    \A w \in Workers :
       threads[w].insights_text # None =>
          /\ ~Failing(w)
          /\ threads[w].exc = None
          /\ StatusOf(threads[w].task_id) # "failed"

\* C22: _identify_topics returns the decoded list when the response decodes
\* to a list; for every other response (undecodable text, a decoded value that
\* is not a list) it returns exactly one topic, whose name is "General", so
\* the topics are empty only when the response is an empty JSON list.
C22_TopicsParsed ==
    \A w \in Workers :
       threads[w].topics_text # None =>
          LET decoded == json_loads(threads[w].topics_text[1]) IN
          IF decoded.ok /\ decoded.value.type = "list"
          THEN threads[w].topics = decoded.value.items
          ELSE /\ Len(threads[w].topics) = 1
               /\ threads[w].topics[1].type = "dict"
               /\ \E i \in 1..Len(threads[w].topics[1].items) :
                     /\ threads[w].topics[1].items[i].key = "name"
                     /\ threads[w].topics[1].items[i].value = "General"
\* The service answered the topics prompt with a JSON object, which is no
\* list, and with text that is no JSON: the topics are the single General topic.
C22_Witness ==
    \E w \in Workers :
       /\ threads[w].topics_text \in {Some(<<"{}">>), Some(<<"w", "\n", "w">>)}
       /\ threads[w].topics = <<General>>
       /\ threads[w].pc = "L198"

\* The positions of _process_workspace_data in program order (lines 140-211),
\* and the external services in the order of their call sites.
ProgramOrder ==
    <<"idle", "L140", "L143", "L146", "L160", "L164", "L166", "L174", "L180",
      "L187", "L192", "L198", "L210", "L211">>
ServiceOrder ==
    <<"fetch", "embedding", "channel_summary", "canvas_summary",
      "workspace_summary", "key_insights", "topics">>
Position(pc) == CHOOSE i \in 1..Len(ProgramOrder) : ProgramOrder[i] = pc
Rank(call) == CHOOSE i \in 1..Len(ServiceOrder) : ServiceOrder[i] = call
\* The services whose call site lies before position pc.
CalledBefore(pc) ==
    {ServiceAt(site) : site \in {c \in CallSites : Position(c) < Position(pc)}}
\* The services that every run calls at least once.
AlwaysCalled == {"fetch", "embedding", "workspace_summary", "key_insights", "topics"}

\* C23: a worker moves through the steps of a task in program order, one
\* position at a time (snapshot fetch, filtering, corpus, vector index,
\* channel summaries, canvas summaries, overall summary, insights, topics,
\* result assembly, terminal writes), leaving the order only for the handler;
\* at every position the calls made so far are those of the steps before it,
\* in order, and all of them returned; the status becomes completed only in
\* the step that assembles the result, after every step before it returned.
C23_StepsInOrder ==
    /\ [][\A w \in Workers :
            threads'[w].pc # threads[w].pc =>
               \/ /\ ~Failing(w) /\ threads[w].pc # "L211"
                  /\ threads'[w].pc \in
                        {ProgramOrder[Position(threads[w].pc) + 1], "L216"}
               \/ threads[w].pc = "L211" /\ threads'[w].pc = "idle"
               \/ threads[w].pc = "L216" /\ threads'[w].pc = "L217"
               \/ threads[w].pc = "L217" /\ threads'[w].pc = "idle"]_vars
    /\ [](\A w \in Workers :
            LET calls == threads[w].calls IN
            /\ \A i, j \in 1..Len(calls) :
                  i < j => Rank(calls[i].call) <= Rank(calls[j].call)
            /\ ~Failing(w) =>
                  /\ \A i \in 1..Len(calls) : calls[i].outcome = "returned"
                  /\ {calls[i].call : i \in 1..Len(calls)}
                        \subseteq CalledBefore(threads[w].pc)
                  /\ CalledBefore(threads[w].pc) \cap AlwaysCalled
                        \subseteq {calls[i].call : i \in 1..Len(calls)})
    /\ [][\A t \in DOMAIN processing_tasks :
            (StatusOf(t)' = "completed" /\ StatusOf(t) # "completed") =>
               \E w \in Workers :
                  /\ threads[w].task_id = t /\ threads[w].pc = "L198"
                  /\ threads'[w].pc = "L210" /\ threads'[w].result # None
                  /\ threads[w].overall_summary # None
                  /\ threads[w].insights_text # None
                  /\ threads[w].topics_text # None]_vars
\* A task is completed and its worker, about to store the result, has made
\* the calls of every step, in order.
C23_Witness ==
    \E w \in Workers :
       /\ threads[w].pc = "L211"
       /\ StatusOf(threads[w].task_id) = "completed"
       /\ [i \in 1..Len(threads[w].calls) |-> threads[w].calls[i].call] =
             <<"fetch", "embedding", "channel_summary", "channel_summary",
               "canvas_summary", "workspace_summary", "key_insights", "topics">>

\* C24: the ids are handed out in the order of the start_processing_task
\* calls, the queue holds the waiting tasks in that order, and a worker that
\* takes a task takes the one at the head: every task still waiting was
\* submitted after the task taken.
C24_FifoDequeue ==
    /\ [](\A i, j \in 1..Len(work_queue) :
            i < j => work_queue[i].task_id < work_queue[j].task_id)
    /\ [][Len(work_queue') < Len(work_queue) =>
            \E w \in Workers :
               /\ threads[w].pc = "idle" /\ threads'[w].pc = "L140"
               /\ threads'[w].task_id = Head(work_queue).task_id
               /\ work_queue' = Tail(work_queue)
               /\ \A i \in 1..Len(work_queue') :
                     work_queue'[i].task_id > threads'[w].task_id]_vars
\* Task 1 has finished; a worker has just taken task 2 while tasks 3 and 4
\* are waiting behind it.
C24_Witness ==
    /\ Len(work_queue) = 2
    /\ work_queue[1].task_id = 3 /\ work_queue[2].task_id = 4
    /\ StatusOf(1) \in Terminal
    /\ \A w \in Workers : threads[w].pc = IF w = 1 THEN "L140" ELSE "idle"
    /\ threads[1].task_id = 2

\* C25: the prompt of the overall summary holds one item for each retained
\* channel with messages, in the order of the channels in the workspace, and
\* each item carries the summary of that channel under that channel's name,
\* also when channels before it had no retained message and were skipped.
C25_SummariesLabelled ==
    \A w \in Workers :
       threads[w].overall_summary # None =>
          LET prompt == threads[w].overall_summary[1].prompt
              summarised == SelectSeq(threads[w].workspace_data[1].channels,
                                      LAMBDA c : c.messages # <<>>)
          IN
          /\ Len(prompt.channels) = Len(summarised)
          /\ \A i \in 1..Len(summarised) :
                /\ prompt.channels[i].summary =
                      generate_channel_summary(summarised[i])
                /\ prompt.channels[i].label = summarised[i].name

\* The channels, messages and replies of a workspace, and the messages
\* together with their channel.
ChannelsOf(workspace) == Range(workspace.channels)
MessagesOf(workspace) ==
    UNION {{[channel |-> c, message |-> m] : m \in Range(c.messages)} :
              c \in ChannelsOf(workspace)}
\* The source of a Document has text of its own: the text of the message or
\* of the reply, the title or the blocks of the canvas.
HasOwnText(workspace, document) ==
    CASE document.source_type = "message" ->
            \E s \in MessagesOf(workspace) :
               /\ s.channel.id = document.channel_id
               /\ s.message.id = document.message_id
               /\ ~Blank(s.message.text)
      [] document.source_type = "reply" ->
            \E s \in MessagesOf(workspace) :
               /\ s.channel.id = document.channel_id
               /\ s.message.id = document.parent_message_id
               /\ \E reply \in Range(s.message.replies) :
                     reply.id = document.message_id /\ ~Blank(reply.text)
      [] document.source_type = "canvas" ->
            \E canvas \in Range(workspace.canvases) :
               /\ canvas.id = document.canvas_id
               /\ ~(Blank(canvas.title) /\ Blank(BlocksText(canvas.content)))

\* C26: every Document of the corpus has text that is not empty and not only
\* whitespace, and comes from a message, a reply or a canvas that has text of
\* its own: one without text produces no Document.
C26_DocumentsHaveText ==
    \A w \in Workers :
       PastCorpus(w) =>
          \A i \in 1..Len(threads[w].documents) :
             /\ ~Blank(threads[w].documents[i].page_content)
             /\ HasOwnText(threads[w].workspace_data[1], threads[w].documents[i])

\* The Documents of the corpus made from message m of channel c, resp. from
\* reply r under it.
DocumentsOfMessage(documents, c, m) ==
    {i \in 1..Len(documents) :
        /\ documents[i].source_type = "message"
        /\ documents[i].channel_id = c.id
        /\ documents[i].message_id = m.id}
DocumentsOfReply(documents, c, m, r) ==
    {i \in 1..Len(documents) :
        /\ documents[i].source_type = "reply"
        /\ documents[i].channel_id = c.id
        /\ documents[i].parent_message_id = m.id
        /\ documents[i].message_id = r.id}

\* C27: every retained message with text yields exactly one Document of kind
\* message, and every reply with text under a retained message exactly one
\* Document of kind reply that carries the parent's message id, whether or
\* not the parent message has text itself.
C27_OneDocumentPerText ==
    \A w \in Workers :
       PastCorpus(w) =>
          \A s \in MessagesOf(threads[w].workspace_data[1]) :
             /\ ~Blank(s.message.text) =>
                   Cardinality(DocumentsOfMessage(threads[w].documents,
                                                  s.channel, s.message)) = 1
             /\ \A r \in Range(s.message.replies) :
                   ~Blank(r.text) =>
                      Cardinality(DocumentsOfReply(threads[w].documents,
                                                   s.channel, s.message, r)) = 1

\* The entries of a dict under a key, and the calls of a service.
EntriesOf(dict, key) == {i \in 1..Len(dict) : dict[i].key = key}
CallsOf(calls, service) == {i \in 1..Len(calls) : calls[i].call = service}

\* C28: for a completed task, channel_summaries has exactly one entry for
\* each retained channel that holds a retained message and none for a channel
\* that holds none; each entry is the answer to one completion call, whose
\* prompt covers messages of that channel, at most 50 of them, and there are
\* as many channel-summary calls as entries.
C28_SummarisedChannels ==
    \A w \in Workers :
       (threads[w].pc \in {"L210", "L211"}
          /\ StatusOf(threads[w].task_id) = "completed") =>
          LET workspace_data == threads[w].workspace_data[1]
              channel_summaries == threads[w].result[1].channel_summaries
          IN
          /\ Keys(channel_summaries) =
                {c.id : c \in {d \in ChannelsOf(workspace_data) : d.messages # <<>>}}
          /\ \A c \in ChannelsOf(workspace_data) :
                /\ Cardinality(EntriesOf(channel_summaries, c.id)) =
                      IF c.messages # <<>> THEN 1 ELSE 0
                /\ \A i \in EntriesOf(channel_summaries, c.id) :
                      /\ channel_summaries[i].value.type = "completion"
                      /\ channel_summaries[i].value.prompt.channel_name = c.name
                      /\ Len(channel_summaries[i].value.prompt.messages) <= 50
                      /\ Range(channel_summaries[i].value.prompt.messages)
                            \subseteq Range(c.messages)
          /\ Cardinality(CallsOf(threads[w].calls, "channel_summary")) =
                Len(channel_summaries)
\* A task is completed whose first channel holds 51 messages and whose second
\* channel holds none: there is one summary, made from 50 messages.
C28_Witness ==
    \E w \in Workers :
       /\ threads[w].pc = "L211"
       /\ StatusOf(threads[w].task_id) = "completed"
       /\ Len(threads[w].workspace_data[1].channels) = 2
       /\ Len(threads[w].workspace_data[1].channels[1].messages) = 51
       /\ threads[w].workspace_data[1].channels[2].messages = <<>>
       /\ Len(threads[w].result[1].channel_summaries) = 1
       /\ Len(threads[w].result[1].channel_summaries[1].value.prompt.messages) = 50

\* The upstream calls whose failure the fetch does not survive, and the
\* upstream calls that failed for worker w's fetch.
Fatal == UpstreamCalls \ {"conversations_list private", "canvas_list"}
FailedUpstream(w) ==
    {threads[w].calls[i].call :
        i \in {j \in 1..Len(threads[w].calls) :
                  /\ threads[w].calls[j].call \in UpstreamCalls
                  /\ threads[w].calls[j].outcome = "raised"}}

C30_ResultsRouteNotReady ==
    (ret.op = "results_route" /\ Known(ret.task_id)) =>
       /\ ret.view.status # "completed" =>
             /\ ret.outcome = "400"
             /\ ret.view.error = Some(NotCompletedYet)
       /\ ret.outcome = "200" =>
             /\ ret.view.status = "completed"
             /\ ret.view.results = processing_tasks[ret.task_id].results
             /\ ret.view.results # None

\* C31: the process endpoint answers a request for a workspace that is not
\* registered with HTTP status 404, having stored no task and queued no work
\* for it; a request for a registered workspace is answered with the id of a
\* task that was stored for that workspace and queued.
C31_ProcessRouteNotFound ==
    ret.op = "process_route" =>
       IF ret.view.workspace_id \notin clients
       THEN /\ ret.outcome = "404"
            /\ \A t \in DOMAIN processing_tasks :
                  processing_tasks[t].workspace_id \in clients
            /\ \A i \in 1..Len(work_queue) : work_queue[i].workspace_id \in clients
       ELSE /\ ret.outcome = "200"
            /\ Known(ret.task_id)
            /\ processing_tasks[ret.task_id].workspace_id = ret.view.workspace_id
            /\ Cardinality({i \in 1..Len(work_queue) :
                               work_queue[i].task_id = ret.task_id}) = 1
====
